---- MODULE Spec2Model ----
(***************************************************************************)
(* Identity and access management of the instruction-sheet backend:        *)
(* credential validation with lockout, refresh-session rotation and the    *)
(* request guards (role, department scope, ownership).                     *)
(*                                                                         *)
(* Time is counted in hours.  A Date that is not set is NoDate (0); the    *)
(* clock starts at 1.                                                      *)
(***************************************************************************)
EXTENDS Integers, Sequences, FiniteSets, TLC

\* ------------------------------------------------------------------ bounds
MaxTime == 4
MaxTokens == 3
MaxCalls == 2
MaxLoginSessions == 1
MaxRoles == 2
MaxFailures == 6
MaxDrift == 4

\* ------------------------------------------------------- program constants
MaxLoginAttempts == 5
LockDuration == 2
RefreshTokenTtl == 168
TotpWindow == 2

NoDate == 0
NoSecret == 0
NoToken == 0

UserIds == {"u1", "u2"}
Emails == {"u1", "u2", "nobody"}
Passwords == {"pw1", "pw2"}
Secrets == {1}
Drifts == {0, 3}
\* what speakeasy.generateSecret can return, and the steps a code can be off by
FreshSecrets == {2, 3}
EnableDrifts == {0 - 1, 0, 1, 3}
Depts == {"D1", "D2"}

\* shared/common/enums/enums.ts
ADMIN == "admin"
PREPARATEUR == "preparateur"
IPDF == "ipdf"
IQP == "iqp"
END_USER == "end_user"
UserRole == {ADMIN, PREPARATEUR, IPDF, IQP, END_USER}

VARIABLES
    users,          \* the users collection: id -> document
    refreshTokens,  \* the refreshtokens collection; the token value is the index
    now,            \* the clock
    last,           \* the last call and what it returned
    streak,         \* history: consecutive wrong-password logins from a fresh counter
    calls,          \* refreshToken calls in flight, between their awaits
    logins,         \* validateUser calls in flight, between their awaits
    reqUser,        \* request.user as the JWT strategy's validate() left it
    verdict,        \* the last guard decision
    issued,         \* history: the account as it was when last.access was signed
    workflows,      \* the validationworkflows collection: sheet -> stage -> document
    reviewed        \* the last call of a validation endpoint and what it returned

authVars == <<users, refreshTokens, now, last, streak>>
raceVars == <<calls, logins>>
guardVars == <<reqUser, verdict>>
tokenVars == <<issued>>
reviewVars == <<workflows, reviewed>>
vars == <<users, refreshTokens, now, last, streak, calls, logins, reqUser, verdict, issued,
          workflows, reviewed>>

\* ---------------------------------------------------------------- hashing
\* bcrypt.hash / bcrypt.compare: a hash matches exactly the password it was made from
bcryptHash(pw) == <<"bcrypt", pw>>
bcryptCompare(pw, hash) == hash = bcryptHash(pw)

\* ------------------------------------------------------------ user schema
\* a 2FA code: the secret it was generated from and how many 30-second steps
\* away from the current step it was generated; sec = NoSecret is no code at all
NoCode == [sec |-> NoSecret, drift |-> 0]
Codes == {NoCode} \cup [sec : Secrets, drift : Drifts]

isLockedExpired(u, t) == u.lockedUntil # NoDate /\ u.lockedUntil < t
isLocked(u, t) == u.lockedUntil # NoDate /\ u.lockedUntil > t

\* doc is the document as loaded, stored the record the update is applied to
incLoginAttemptsNoRestart(doc, stored, t) ==
    IF doc.loginAttempts + 1 >= MaxLoginAttempts /\ ~isLocked(doc, t)
    THEN [stored EXCEPT !.loginAttempts = @ + 1, !.lockedUntil = t + LockDuration]
    ELSE [stored EXCEPT !.loginAttempts = @ + 1]
incLoginAttempts(doc, stored, t) ==
    IF doc.lockedUntil # NoDate /\ doc.lockedUntil < t
    THEN [stored EXCEPT !.loginAttempts = 1, !.lockedUntil = NoDate]
    ELSE IF doc.loginAttempts + 1 >= MaxLoginAttempts /\ ~isLocked(doc, t)
         THEN [stored EXCEPT !.loginAttempts = @ + 1, !.lockedUntil = t + LockDuration]
         ELSE [stored EXCEPT !.loginAttempts = @ + 1]

\* $unset of both fields; loginAttempts reads back as its default 0
resetLoginAttemptsLockOnly(stored) ==
    [stored EXCEPT !.lockedUntil = NoDate]
resetLoginAttempts(stored) ==
    [stored EXCEPT !.loginAttempts = 0, !.lockedUntil = NoDate]

\* a query result: twoFactorSecret is select:false and comes back only when asked for
findUser(u, withSecret) ==
    IF withSecret THEN u ELSE [u EXCEPT !.twoFactorSecret = NoSecret]

findOneByEmail(email) == IF email \in UserIds THEN {email} ELSE {}

\* ------------------------------------------------------ refresh-token schema
isExpired(tok, t) == tok.expiresAt < t
isValid(tok, t) == ~tok.isRevoked /\ ~isExpired(tok, t)

\* ------------------------------------------------------------ auth service
\* speakeasy.totp.verify with window w accepts the codes of the secret for the
\* steps current-w .. current+w
verify2FAToken(secret, code) ==
    /\ code.sec = secret
    /\ code.drift <= TotpWindow
    /\ code.drift >= 0 - TotpWindow

NoPayload == [sub |-> "", email |-> "", role |-> "", departmentId |-> ""]
JwtPayloadOfNoDepartment(id, u) ==
    [sub |-> id, email |-> u.email, role |-> u.role, departmentId |-> ""]
JwtPayloadOf(id, u) ==
    [sub |-> id, email |-> u.email, role |-> u.role, departmentId |-> u.departmentId]

NewRefreshToken(userId, t, pred) ==
    [userId |-> userId, expiresAt |-> t + RefreshTokenTtl, isRevoked |-> FALSE, pred |-> pred]

\* the record of a call: its arguments, what it returned (result, access token
\* payload, refresh token)
Result(op, who, password, code, tok, res, access, refresh) ==
    [op |-> op, who |-> who, password |-> password, code |-> code, tok |-> tok,
     result |-> res, access |-> access, refresh |-> refresh]

\* validateUser: what it returns or throws, and the users collection it leaves
\* validateFound is the part that runs once the account was found
validateFoundCountRefused(id, password) ==
    LET doc == findUser(users[id], FALSE)
        counted == [users EXCEPT ![id].loginAttempts = @ + 1]
    IN  IF ~bcryptCompare(password, doc.passwordHash) /\ isLocked(doc, now)
        THEN [res |-> "AccountLocked", users |-> counted]
        ELSE IF ~bcryptCompare(password, doc.passwordHash) /\ ~doc.isActive
        THEN [res |-> "AccountInactive", users |-> counted]
        ELSE IF isLocked(doc, now) THEN [res |-> "AccountLocked", users |-> users]
        ELSE IF ~doc.isActive THEN [res |-> "AccountInactive", users |-> users]
        ELSE IF ~bcryptCompare(password, doc.passwordHash)
             THEN [res |-> "null",
                   users |-> [users EXCEPT ![id] = incLoginAttempts(doc, users[id], now)]]
        ELSE IF doc.loginAttempts > 0
             THEN [res |-> "user",
                   users |-> [users EXCEPT ![id] = resetLoginAttempts(users[id])]]
        ELSE [res |-> "user", users |-> users]
validateFound(id, password) ==
    LET doc == findUser(users[id], FALSE)
    IN  IF isLocked(doc, now) THEN [res |-> "AccountLocked", users |-> users]
        ELSE IF ~doc.isActive THEN [res |-> "AccountInactive", users |-> users]
        ELSE IF ~bcryptCompare(password, doc.passwordHash)
             THEN [res |-> "null",
                   users |-> [users EXCEPT ![id] = incLoginAttempts(doc, users[id], now)]]
        ELSE IF doc.loginAttempts > 0
             THEN [res |-> "user",
                   users |-> [users EXCEPT ![id] = resetLoginAttempts(users[id])]]
        ELSE [res |-> "user", users |-> users]

validateUserRevealing(email, password) ==
    IF findOneByEmail(email) = {}
    THEN [res |-> "UserNotFound", users |-> users]
    ELSE validateFound(CHOOSE i \in findOneByEmail(email) : TRUE, password)
validateUser(email, password) ==
    IF findOneByEmail(email) = {}
    THEN [res |-> "null", users |-> users]
    ELSE validateFound(CHOOSE i \in findOneByEmail(email) : TRUE, password)

\* history of the lockout scenario: the number of consecutive wrong-password
\* logins on an account counted from loginAttempts = 0 and no lock; the call
\* made at 5 is the sixth attempt and ends the scenario
NextStreak(email, password) ==
    IF email \notin UserIds THEN streak
    ELSE LET u == users[email]
             fresh == u.loginAttempts = 0 /\ u.lockedUntil = NoDate
         IN  [streak EXCEPT ![email] =
                 IF @ = MaxLoginAttempts THEN 0
                 ELSE IF bcryptCompare(password, u.passwordHash) THEN 0
                 ELSE IF @ > 0 THEN @ + 1
                 ELSE IF fresh THEN 1 ELSE 0]

LoginFail(email, password, code, res, us) ==
    /\ users' = us
    /\ last' = Result("login", email, password, code, NoToken, res, NoPayload, NoToken)
    /\ UNCHANGED refreshTokens

\* login's 2FA gate (the loaded user carries no twoFactorSecret)
twoFactorCheckSkipMissing(user, code) ==
    IF ~user.isTwoFactorEnabled \/ code = NoCode THEN "ok"
    ELSE IF ~verify2FAToken(user.twoFactorSecret, code) THEN "InvalidTwoFactorCode"
    ELSE "ok"
twoFactorCheck(user, code) ==
    IF ~user.isTwoFactorEnabled THEN "ok"
    ELSE IF code = NoCode THEN "TwoFactorRequired"
    ELSE IF ~verify2FAToken(user.twoFactorSecret, code) THEN "InvalidTwoFactorCode"
    ELSE "ok"

Login(email, password, code) ==
    LET v == validateUser(email, password)
    IN  /\ streak' = NextStreak(email, password)
        /\ UNCHANGED now
        /\ IF v.res = "null"
           THEN LoginFail(email, password, code, "InvalidCredentials", v.users)
           ELSE IF v.res # "user" THEN LoginFail(email, password, code, v.res, v.users)
           ELSE LET user == findUser(users[email], FALSE)
                    gate == twoFactorCheck(user, code)
                IN  IF gate # "ok" THEN LoginFail(email, password, code, gate, v.users)
                    ELSE /\ Len(refreshTokens) < MaxTokens
                         /\ users' = [v.users EXCEPT ![email] =
                                        [resetLoginAttempts(@) EXCEPT !.lastLoginAt = now]]
                         /\ refreshTokens' =
                                Append(refreshTokens, NewRefreshToken(email, now, NoToken))
                         /\ last' = Result("login", email, password, code, NoToken, "ok",
                                           JwtPayloadOf(email, user), Len(refreshTokens) + 1)

\* refreshToken, run without interruption
TokenIds == 1..MaxTokens
findOneToken(tok) ==
    IF tok \in 1..Len(refreshTokens) /\ ~refreshTokens[tok].isRevoked THEN {tok} ELSE {}

refreshOutcomeRevokedToo(tok) ==
    IF tok \notin 1..Len(refreshTokens) THEN "InvalidRefreshToken"
    ELSE IF isExpired(refreshTokens[tok], now) THEN "InvalidRefreshToken"
    ELSE IF ~users[refreshTokens[tok].userId].isActive THEN "AccountInactive"
    ELSE "ok"
refreshOutcomeInactiveAllowed(tok) ==
    IF findOneToken(tok) = {} THEN "InvalidRefreshToken"
    ELSE IF ~isValid(refreshTokens[tok], now) THEN "InvalidRefreshToken"
    ELSE "ok"
refreshOutcome(tok) ==
    IF findOneToken(tok) = {} THEN "InvalidRefreshToken"
    ELSE IF ~isValid(refreshTokens[tok], now) THEN "InvalidRefreshToken"
    ELSE IF ~users[refreshTokens[tok].userId].isActive THEN "AccountInactive"
    ELSE "ok"

revokeTokenNot(toks, tok) == toks
revokeToken(toks, tok) == [toks EXCEPT ![tok].isRevoked = TRUE]

RefreshTokenRegisteredClaims(tok) ==
    LET res == refreshOutcome(tok)
    IN  /\ UNCHANGED <<users, now, streak>>
        /\ IF res # "ok"
           THEN /\ last' = Result("refresh", "", "", NoCode, tok, res, NoPayload, NoToken)
                /\ UNCHANGED refreshTokens
           ELSE LET id == refreshTokens[tok].userId
                IN  /\ Len(refreshTokens) < MaxTokens
                    /\ refreshTokens' = Append(revokeToken(refreshTokens, tok),
                                               NewRefreshToken(id, now, tok))
                    /\ last' = Result("refresh", id, "", NoCode, tok, "ok",
                                      JwtPayloadOf(id, [users[id] EXCEPT
                                                          !.role = PREPARATEUR,
                                                          !.departmentId = "D1"]),
                                      Len(refreshTokens) + 1)
RefreshToken(tok) ==
    LET res == refreshOutcome(tok)
    IN  /\ UNCHANGED <<users, now, streak>>
        /\ IF res # "ok"
           THEN /\ last' = Result("refresh", "", "", NoCode, tok, res, NoPayload, NoToken)
                /\ UNCHANGED refreshTokens
           ELSE LET id == refreshTokens[tok].userId
                IN  /\ Len(refreshTokens) < MaxTokens
                    /\ refreshTokens' = Append(revokeToken(refreshTokens, tok),
                                               NewRefreshToken(id, now, tok))
                    /\ last' = Result("refresh", id, "", NoCode, tok, "ok",
                                      JwtPayloadOf(id, users[id]), Len(refreshTokens) + 1)

\* updateOne({token}, {isRevoked: true})
logoutUpdateOwner(toks, tok) ==
    [i \in 1..Len(toks) |->
        IF tok \in 1..Len(toks) /\ toks[i].userId = toks[tok].userId
        THEN [toks[i] EXCEPT !.isRevoked = TRUE] ELSE toks[i]]
logoutUpdate(toks, tok) ==
    [i \in 1..Len(toks) |-> IF i = tok THEN [toks[i] EXCEPT !.isRevoked = TRUE] ELSE toks[i]]

Logout(tok) ==
    /\ refreshTokens' = logoutUpdate(refreshTokens, tok)
    /\ last' = Result("logout", "", "", NoCode, tok, "ok", NoPayload, NoToken)
    /\ UNCHANGED <<users, now, streak>>

\* updateMany({userId, isRevoked: false}, {isRevoked: true})
logoutAllUpdateFirst(toks, userId) ==
    LET hit == {i \in 1..Len(toks) : toks[i].userId = userId /\ ~toks[i].isRevoked}
    IN  [i \in 1..Len(toks) |->
            IF hit # {} /\ i = CHOOSE j \in hit : \A k \in hit : j <= k
            THEN [toks[i] EXCEPT !.isRevoked = TRUE] ELSE toks[i]]
logoutAllUpdate(toks, userId) ==
    [i \in 1..Len(toks) |->
        IF toks[i].userId = userId /\ ~toks[i].isRevoked
        THEN [toks[i] EXCEPT !.isRevoked = TRUE] ELSE toks[i]]

LogoutFromAllDevices(userId) ==
    /\ refreshTokens' = logoutAllUpdate(refreshTokens, userId)
    /\ last' = Result("logoutAll", userId, "", NoCode, NoToken, "ok", NoPayload, NoToken)
    /\ UNCHANGED <<users, now, streak>>

ChangePasswordKeepSessions(userId, currentPassword, newPassword) ==
    LET user == users[userId]
    IN  /\ UNCHANGED <<now, streak, refreshTokens>>
        /\ IF \/ ~bcryptCompare(currentPassword, user.passwordHash)
              \/ bcryptCompare(newPassword, user.passwordHash)
           THEN /\ last' = Result("changePassword", userId, currentPassword, NoCode,
                                  NoToken, "BadRequest", NoPayload, NoToken)
                /\ UNCHANGED users
           ELSE /\ users' = [users EXCEPT ![userId].passwordHash = bcryptHash(newPassword)]
                /\ last' = Result("changePassword", userId, currentPassword, NoCode,
                                  NoToken, "ok", NoPayload, NoToken)
ChangePassword(userId, currentPassword, newPassword) ==
    LET user == users[userId]
    IN  /\ UNCHANGED <<now, streak>>
        /\ IF ~bcryptCompare(currentPassword, user.passwordHash)
           THEN /\ last' = Result("changePassword", userId, currentPassword, NoCode,
                                  NoToken, "BadRequest", NoPayload, NoToken)
                /\ UNCHANGED <<users, refreshTokens>>
           ELSE IF bcryptCompare(newPassword, user.passwordHash)
           THEN /\ last' = Result("changePassword", userId, currentPassword, NoCode,
                                  NoToken, "BadRequest", NoPayload, NoToken)
                /\ UNCHANGED <<users, refreshTokens>>
           ELSE /\ users' = [users EXCEPT ![userId].passwordHash = bcryptHash(newPassword)]
                /\ refreshTokens' = logoutAllUpdate(refreshTokens, userId)
                /\ last' = Result("changePassword", userId, currentPassword, NoCode,
                                  NoToken, "ok", NoPayload, NoToken)

\* setup2FA: findById, generateSecret, user.twoFactorSecret = secret, save;
\* the secret it returns is recorded as the sec of the call's code
Setup2FA(userId, secret) ==
    /\ users' = [users EXCEPT ![userId].twoFactorSecret = secret]
    /\ last' = Result("setup2FA", userId, "", [sec |-> secret, drift |-> 0], NoToken,
                      "ok", NoPayload, NoToken)
    /\ UNCHANGED <<refreshTokens, now, streak>>

\* enable2FA: the user comes from findById, with no select of twoFactorSecret
Enable2FA(userId, token) ==
    LET user == findUser(users[userId], FALSE)
        res == IF user.twoFactorSecret = NoSecret THEN "BadRequest: setup not initiated"
               ELSE IF ~verify2FAToken(user.twoFactorSecret, token)
                    THEN "BadRequest: invalid code"
               ELSE "ok"
    IN  /\ users' = IF res = "ok" THEN [users EXCEPT ![userId].isTwoFactorEnabled = TRUE]
                    ELSE users
        /\ last' = Result("enable2FA", userId, "", token, NoToken, res, NoPayload, NoToken)
        /\ UNCHANGED <<refreshTokens, now, streak>>

\* disable2FA: the same findById; verify2FAToken gets the undefined
\* twoFactorSecret of the loaded document and accepts no code for it
Disable2FA(userId, token) ==
    LET user == findUser(users[userId], FALSE)
        res == IF ~user.isTwoFactorEnabled THEN "BadRequest: not enabled"
               ELSE IF ~verify2FAToken(user.twoFactorSecret, token)
                    THEN "BadRequest: invalid code"
               ELSE "ok"
    IN  /\ users' = IF res = "ok"
                    THEN [users EXCEPT ![userId].isTwoFactorEnabled = FALSE,
                                       ![userId].twoFactorSecret = NoSecret]
                    ELSE users
        /\ last' = Result("disable2FA", userId, "", token, NoToken, res, NoPayload, NoToken)
        /\ UNCHANGED <<refreshTokens, now, streak>>

\* user-service updateUser with role, departmentId and isActive in the body:
\* only an admin gets as far as findByIdAndUpdate
UpdateUser(id, role, departmentId, isActive, isAdmin, isSelf) ==
    /\ UNCHANGED <<refreshTokens, now, streak>>
    /\ IF (~isAdmin /\ ~isSelf) \/ (isSelf /\ ~isAdmin)
       THEN /\ last' = Result("updateUser", id, "", NoCode, NoToken, "Forbidden",
                              NoPayload, NoToken)
            /\ UNCHANGED users
       ELSE /\ users' = [users EXCEPT ![id].role = role,
                                      ![id].departmentId = departmentId,
                                      ![id].isActive = isActive]
            /\ last' = Result("updateUser", id, "", NoCode, NoToken, "ok",
                              NoPayload, NoToken)

\* refreshToken as it runs: each step ends at an await
IdleCall == [pc |-> "idle", tok |-> NoToken, payload |-> NoPayload]
InFlight == {c \in 1..MaxCalls : calls[c].pc # "idle"}

\* findOne + populate, the checks and the signing of the access token
RefreshFind(c, tok) ==
    LET res == refreshOutcome(tok)
    IN  /\ calls[c].pc = "idle"
        /\ UNCHANGED <<users, refreshTokens, now, streak>>
        /\ IF res # "ok"
           THEN /\ last' = Result("refresh", "", "", NoCode, tok, res, NoPayload, NoToken)
                /\ UNCHANGED calls
           ELSE LET id == refreshTokens[tok].userId
                IN  /\ Len(refreshTokens) + Cardinality(InFlight) < MaxTokens
                    /\ calls' = [calls EXCEPT ![c] =
                                    [pc |-> "save", tok |-> tok,
                                     payload |-> JwtPayloadOf(id, users[id])]]
                    /\ UNCHANGED last

\* tokenDoc.isRevoked = true; tokenDoc.save()
RefreshSaveSkipped(c) ==
    /\ calls[c].pc = "save"
    /\ calls' = [calls EXCEPT ![c].pc = "issue"]
    /\ UNCHANGED <<users, refreshTokens, now, last, streak>>
RefreshSave(c) ==
    /\ calls[c].pc = "save"
    /\ refreshTokens' = revokeToken(refreshTokens, calls[c].tok)
    /\ calls' = [calls EXCEPT ![c].pc = "issue"]
    /\ UNCHANGED <<users, now, last, streak>>

\* tokenDoc.save() rejects: nothing catches it, refreshToken throws and
\* generateRefreshToken is not reached
RefreshSaveFail(c) ==
    /\ calls[c].pc = "save"
    /\ last' = Result("refresh", calls[c].payload.sub, "", NoCode, calls[c].tok,
                      "WriteFailed", NoPayload, NoToken)
    /\ calls' = [calls EXCEPT ![c] = IdleCall]
    /\ UNCHANGED <<users, refreshTokens, now, streak>>

\* generateRefreshToken and the return
RefreshIssue(c) ==
    /\ calls[c].pc = "issue"
    /\ refreshTokens' = Append(refreshTokens,
                               NewRefreshToken(calls[c].payload.sub, now, calls[c].tok))
    /\ last' = Result("refresh", calls[c].payload.sub, "", NoCode, calls[c].tok, "ok",
                      calls[c].payload, Len(refreshTokens) + 1)
    /\ calls' = [calls EXCEPT ![c] = IdleCall]
    /\ UNCHANGED <<users, now, streak>>

\* a login with a wrong password as it runs: validateUser loads the user, and
\* after bcrypt.compare incLoginAttempts decides from the document as loaded
NoDoc == [loginAttempts |-> 0, lockedUntil |-> NoDate]
IdleLogin == [pc |-> "idle", who |-> "", password |-> "", doc |-> NoDoc]
LoginsInFlight(id) == {c \in 1..MaxCalls : logins[c].pc # "idle" /\ logins[c].who = id}

\* findOne, the lock and activity checks
ValidateFind(c, id, password) ==
    LET user == findUser(users[id], FALSE)
    IN  /\ logins[c].pc = "idle"
        /\ ~bcryptCompare(password, user.passwordHash)
        /\ streak[id] + Cardinality(LoginsInFlight(id)) < MaxFailures
        /\ UNCHANGED <<users, refreshTokens, now, streak>>
        /\ IF isLocked(user, now) \/ ~user.isActive
           THEN /\ last' = Result("login", id, password, NoCode, NoToken,
                                  IF isLocked(user, now) THEN "AccountLocked"
                                  ELSE "AccountInactive", NoPayload, NoToken)
                /\ UNCHANGED logins
           ELSE /\ logins' = [logins EXCEPT ![c] =
                                [pc |-> "inc", who |-> id, password |-> password,
                                 doc |-> [loginAttempts |-> user.loginAttempts,
                                          lockedUntil |-> user.lockedUntil]]]
                /\ UNCHANGED last

\* user.incLoginAttempts(), then login throws Invalid credentials; streak
\* counts the failed attempts that have completed
ValidateInc(c) ==
    LET id == logins[c].who
    IN  /\ logins[c].pc = "inc"
        /\ users' = [users EXCEPT ![id] = incLoginAttempts(logins[c].doc, users[id], now)]
        /\ last' = Result("login", id, logins[c].password, NoCode, NoToken,
                          "InvalidCredentials", NoPayload, NoToken)
        /\ streak' = [streak EXCEPT ![id] = @ + 1]
        /\ logins' = [logins EXCEPT ![c] = IdleLogin]
        /\ UNCHANGED <<refreshTokens, now>>

\* ------------------------------------------------------------------ guards
Undefined == ""
NoDept == ""
RoleSets == {S \in SUBSET UserRole : Cardinality(S) <= MaxRoles}
SignedPayloads ==
    {[sub |-> id, email |-> id, role |-> r, departmentId |-> d] :
        id \in UserIds, r \in UserRole, d \in Depts}
Strategies == {"shared-jwt.strategy", "strategies/jwt.strategy"}

\* SharedJwtStrategy.validate of shared-jwt.strategy.ts; a throw leaves no user
validateShared(payload) ==
    IF payload.sub = Undefined \/ payload.email = Undefined \/ payload.role = Undefined
    THEN [present |-> FALSE, sub |-> Undefined, userId |-> Undefined, email |-> "",
          role |-> "", departmentId |-> ""]
    ELSE [present |-> TRUE, sub |-> Undefined, userId |-> payload.sub,
          email |-> payload.email, role |-> payload.role,
          departmentId |-> payload.departmentId]

\* SharedJwtStrategy.validate of strategies/jwt.strategy.ts
validateJwt(payload) ==
    IF payload.sub = Undefined \/ payload.email = Undefined \/ payload.role = Undefined
    THEN [present |-> FALSE, sub |-> Undefined, userId |-> Undefined, email |-> "",
          role |-> "", departmentId |-> ""]
    ELSE [present |-> TRUE, sub |-> payload.sub, userId |-> Undefined,
          email |-> payload.email, role |-> payload.role,
          departmentId |-> payload.departmentId]

RolesGuardEvery(defined, requiredRoles, user) ==
    IF ~defined THEN "allow"
    ELSE IF ~user.present THEN "Forbidden"
    ELSE IF \A role \in requiredRoles : user.role = role THEN "allow" ELSE "Forbidden"
RolesGuard(defined, requiredRoles, user) ==
    IF ~defined THEN "allow"
    ELSE IF ~user.present THEN "Forbidden"
    ELSE IF \E role \in requiredRoles : user.role = role THEN "allow" ELSE "Forbidden"

DepartmentGuardBodyFirst(requiresDepartmentAccess, user, params, query, body) ==
    IF ~requiresDepartmentAccess THEN "allow"
    ELSE IF ~user.present THEN "Forbidden"
    ELSE IF user.role = ADMIN THEN "allow"
    ELSE LET departmentId == IF body # NoDept THEN body
                             ELSE IF query # NoDept THEN query ELSE params
         IN  IF departmentId = NoDept THEN "allow"
             ELSE IF user.departmentId # departmentId THEN "Forbidden"
             ELSE "allow"
DepartmentGuard(requiresDepartmentAccess, user, params, query, body) ==
    IF ~requiresDepartmentAccess THEN "allow"
    ELSE IF ~user.present THEN "Forbidden"
    ELSE IF user.role = ADMIN THEN "allow"
    ELSE LET departmentId == IF params # NoDept THEN params
                             ELSE IF query # NoDept THEN query ELSE body
         IN  IF departmentId = NoDept THEN "allow"
             ELSE IF user.departmentId # departmentId THEN "Forbidden"
             ELSE "allow"

UserOwnershipGuard(user, targetUserId) ==
    IF ~user.present THEN "Forbidden"
    ELSE IF user.role = ADMIN THEN "allow"
    ELSE IF user.sub = targetUserId THEN "allow"
    ELSE "Forbidden"

\* a request arrives with a token this system signed; the strategy wired into
\* the service turns its payload into request.user
Authenticate(payload, strategy) ==
    /\ reqUser' = IF strategy = "shared-jwt.strategy" THEN validateShared(payload)
                  ELSE validateJwt(payload)
    /\ verdict' = [guard |-> "", defined |-> FALSE, roles |-> {}, scoped |-> FALSE,
                   params |-> NoDept, query |-> NoDept, body |-> NoDept, target |-> "",
                   result |-> ""]

CheckRoles(defined, requiredRoles) ==
    /\ verdict' = [guard |-> "roles", defined |-> defined, roles |-> requiredRoles,
                   scoped |-> FALSE, params |-> NoDept, query |-> NoDept, body |-> NoDept,
                   target |-> "", result |-> RolesGuard(defined, requiredRoles, reqUser)]
    /\ UNCHANGED reqUser

CheckDepartment(scoped, params, query, body) ==
    /\ verdict' = [guard |-> "department", defined |-> FALSE, roles |-> {},
                   scoped |-> scoped, params |-> params, query |-> query, body |-> body,
                   target |-> "",
                   result |-> DepartmentGuard(scoped, reqUser, params, query, body)]
    /\ UNCHANGED reqUser

CheckOwnership(targetUserId) ==
    /\ verdict' = [guard |-> "ownership", defined |-> FALSE, roles |-> {},
                   scoped |-> FALSE, params |-> NoDept, query |-> NoDept, body |-> NoDept,
                   target |-> targetUserId,
                   result |-> UserOwnershipGuard(reqUser, targetUserId)]
    /\ UNCHANGED reqUser

\* history: the access token a call returned and the account it was signed for
\* prevRole and prevDepartmentId are the account's values when the token
\* before this one was signed
NoIssue == [token |-> NoPayload, id |-> "", role |-> "", departmentId |-> "",
            prevRole |-> "", prevDepartmentId |-> ""]
IssuedBy(call, us) ==
    IF call.result = "ok" /\ call.access # NoPayload
    THEN [token |-> call.access, id |-> call.who, role |-> us[call.who].role,
          departmentId |-> us[call.who].departmentId,
          prevRole |-> issued.role, prevDepartmentId |-> issued.departmentId]
    ELSE issued

\* the subject of request.user, under whichever name the strategy gives it
SubjectOf(user) == IF user.sub # Undefined THEN user.sub ELSE user.userId

\* ------------------------------------------------------ validation service
Sheets == {"s1"}
ValidationStage == {"IPDF", "IQP"}
ValidationStatus == {"PENDING", "IN_REVIEW", "VALIDATED", "REJECTED"}
ReviewAction == {"approve", "reject"}

\* a workflow document; status "" stands for no document of that sheet and stage
NoWorkflow == [status |-> "", isActive |-> FALSE]
NoReview == [op |-> "", sheet |-> "", stage |-> "", action |-> "", role |-> "",
             result |-> ""]
Reviewed(op, sheet, stage, action, role, res) ==
    [op |-> op, sheet |-> sheet, stage |-> stage, action |-> action, role |-> role,
     result |-> res]

\* ValidationService.review: what it throws or "ok", from the role string the
\* controller passes (request.user.role)
reviewOutcome(sheetId, userRole) ==
    IF userRole # "IPDF" /\ userRole # "IQP" THEN "Forbidden"
    ELSE LET validation == workflows[sheetId][userRole]
         IN  IF validation.status = "" \/ ~validation.isActive THEN "NotFound"
             ELSE IF validation.status \notin {"PENDING", "IN_REVIEW"} THEN "Conflict"
             ELSE "ok"

\* POST validation/sheets/:sheetId/review behind RolesGuard with
\* @Roles(UserRole.IPDF, UserRole.ADMIN)
ReviewSheet(sheetId, action) ==
    LET guard == RolesGuard(TRUE, {IPDF, ADMIN}, reqUser)
        res == IF guard # "allow" THEN guard ELSE reviewOutcome(sheetId, reqUser.role)
    IN  /\ reviewed' = Reviewed("review", sheetId, "IPDF", action, reqUser.role, res)
        /\ workflows' =
              IF res = "ok"
              THEN [workflows EXCEPT ![sheetId][reqUser.role].status =
                       IF action = "approve" THEN "VALIDATED" ELSE "REJECTED"]
              ELSE workflows
        /\ UNCHANGED <<reqUser, verdict>>

\* POST validation behind @Roles(UserRole.ADMIN): ValidationService.create
CreateValidation(sheetId, stage) ==
    LET guard == RolesGuard(TRUE, {ADMIN}, reqUser)
        res == IF guard # "allow" THEN guard
               ELSE IF workflows[sheetId][stage].status # ""
                       /\ workflows[sheetId][stage].isActive THEN "Conflict"
               ELSE "ok"
    IN  /\ reviewed' = Reviewed("create", sheetId, stage, "", reqUser.role, res)
        /\ workflows' =
              IF res = "ok"
              THEN [workflows EXCEPT ![sheetId][stage] =
                       [status |-> "PENDING", isActive |-> TRUE]]
              ELSE workflows
        /\ UNCHANGED <<reqUser, verdict>>

\* PUT validation/:id behind @Roles(UserRole.ADMIN): ValidationService.update
\* with a status in the body
UpdateValidation(sheetId, stage, status) ==
    LET guard == RolesGuard(TRUE, {ADMIN}, reqUser)
        res == IF guard # "allow" THEN guard
               ELSE IF workflows[sheetId][stage].status = "" THEN "NotFound"
               ELSE "ok"
    IN  /\ reviewed' = Reviewed("update", sheetId, stage, "", reqUser.role, res)
        /\ workflows' =
              IF res = "ok" THEN [workflows EXCEPT ![sheetId][stage].status = status]
              ELSE workflows
        /\ UNCHANGED <<reqUser, verdict>>

\* ValidationService.finalize up to its call of review: the role string, then
\* the sheet's active IPDF workflow with status VALIDATED
finalizeOutcomeNoGate(sheetId, userRole) ==
    IF userRole # "IQP" THEN "Forbidden"
    ELSE reviewOutcome(sheetId, userRole)
finalizeOutcome(sheetId, userRole) ==
    IF userRole # "IQP" THEN "Forbidden"
    ELSE IF ~(/\ workflows[sheetId]["IPDF"].status = "VALIDATED"
              /\ workflows[sheetId]["IPDF"].isActive) THEN "BadRequest"
    ELSE reviewOutcome(sheetId, userRole)

\* ValidationService.finalize, called with a role string
Finalize(sheetId, action, userRole) ==
    LET res == finalizeOutcome(sheetId, userRole)
    IN  /\ reviewed' = Reviewed("finalize", sheetId, "IQP", action, userRole, res)
        /\ workflows' =
              IF res = "ok"
              THEN [workflows EXCEPT ![sheetId][userRole].status =
                       IF action = "approve" THEN "VALIDATED" ELSE "REJECTED"]
              ELSE workflows
        /\ UNCHANGED <<reqUser, verdict>>

\* POST validation/sheets/:sheetId/finalize behind RolesGuard with
\* @Roles(UserRole.IQP, UserRole.ADMIN); the service gets the role of the claims
FinalizeSheet(sheetId, action) ==
    LET guard == RolesGuard(TRUE, {IQP, ADMIN}, reqUser)
    IN  IF guard # "allow"
        THEN /\ reviewed' = Reviewed("finalize", sheetId, "IQP", action, reqUser.role, guard)
             /\ UNCHANGED <<workflows, reqUser, verdict>>
        ELSE Finalize(sheetId, action, reqUser.role)

\* the clock
Tick(d, horizon) ==
    /\ now + d <= horizon
    /\ now' = now + d
    /\ UNCHANGED <<users, refreshTokens, last, streak>>

\* ------------------------------------------------------------------ Init
InitReview ==
    /\ workflows = [s \in Sheets |-> [st \in ValidationStage |-> NoWorkflow]]
    /\ reviewed = NoReview

\* u1 is an account as register() creates it; u2 is a record that was
\* provisioned with 2FA switched on
NewUser(email, role, dept, twoFactor) ==
    [email |-> email, passwordHash |-> bcryptHash("pw1"), role |-> role,
     departmentId |-> dept, isActive |-> TRUE, lastLoginAt |-> NoDate,
     twoFactorSecret |-> IF twoFactor THEN 1 ELSE NoSecret,
     isTwoFactorEnabled |-> twoFactor, loginAttempts |-> 0, lockedUntil |-> NoDate]

NoUser == [present |-> FALSE, sub |-> Undefined, userId |-> Undefined, email |-> "",
           role |-> "", departmentId |-> ""]
NoVerdict == [guard |-> "", defined |-> FALSE, roles |-> {}, scoped |-> FALSE,
              params |-> NoDept, query |-> NoDept, body |-> NoDept, target |-> "",
              result |-> ""]

InitAuth ==
    /\ users = [id \in UserIds |->
                  IF id = "u1" THEN NewUser(id, PREPARATEUR, "D1", FALSE)
                  ELSE NewUser(id, ADMIN, "D2", TRUE)]
    /\ refreshTokens = <<>>
    /\ now = 1
    /\ last = [op |-> "", who |-> "", password |-> "", code |-> NoCode, tok |-> NoToken,
               result |-> "", access |-> NoPayload, refresh |-> NoToken]
    /\ streak = [id \in UserIds |-> 0]

Init ==
    /\ InitAuth
    /\ calls = [c \in 1..MaxCalls |-> IdleCall]
    /\ logins = [c \in 1..MaxCalls |-> IdleLogin]
    /\ reqUser = NoUser
    /\ verdict = NoVerdict
    /\ issued = NoIssue
    /\ InitReview

DoLogin == \E e \in Emails, p \in Passwords, c \in Codes : Login(e, p, c)
\* logins for the credential store: at most MaxLoginSessions of them open a session
CredLogin == DoLogin /\ Len(refreshTokens') <= MaxLoginSessions
DoRefreshToken == \E t \in TokenIds : RefreshToken(t)
DoLogout == \E t \in TokenIds : Logout(t)
DoLogoutFromAllDevices == \E id \in UserIds : LogoutFromAllDevices(id)
DoTick == Tick(1, MaxTime)
\* a refresh token's whole lifetime passes
DoOutlive == Tick(RefreshTokenTtl + 1, MaxTime + RefreshTokenTtl + 1)

\* calls never move the clock, and the clock never moves without a tick
CallStep == now' = now

\* the credential store under login attempts and the passing of time
NextLogin ==
    /\ \/ CredLogin
       \/ DoTick
    /\ UNCHANGED <<raceVars, guardVars, tokenVars, reviewVars>>

SpecLogin == Init /\ [][NextLogin]_vars

\* the session store under every operation that touches it, run one at a time;
\* the sessions are those of the account that can sign in without a 2FA code
SessionLogin == \E p \in Passwords : Login("u1", p, NoCode)
SessionChangePassword == \E c \in Passwords, n \in Passwords : ChangePassword("u1", c, n)

NextSession ==
    /\ \/ SessionLogin
       \/ DoRefreshToken
       \/ DoLogout
       \/ DoLogoutFromAllDevices
       \/ SessionChangePassword
       \/ DoOutlive
    /\ UNCHANGED <<raceVars, guardVars, tokenVars, reviewVars>>

SpecSession == Init /\ [][NextSession]_vars

\* refresh calls running side by side on the sessions of u1
RaceLogin == Login("u1", "pw1", NoCode)
DoRefreshFind == \E c \in 1..MaxCalls, t \in TokenIds : RefreshFind(c, t)
DoRefreshSave == \E c \in 1..MaxCalls : RefreshSave(c)
DoRefreshSaveFail == \E c \in 1..MaxCalls : RefreshSaveFail(c)
DoRefreshIssue == \E c \in 1..MaxCalls : RefreshIssue(c)

NextRace ==
    \/ RaceLogin /\ UNCHANGED <<raceVars, guardVars, tokenVars, reviewVars>>
    \/ DoLogout /\ UNCHANGED <<raceVars, guardVars, tokenVars, reviewVars>>
    \/ DoLogoutFromAllDevices /\ UNCHANGED <<raceVars, guardVars, tokenVars, reviewVars>>
    \/ DoRefreshFind /\ UNCHANGED <<logins, guardVars, tokenVars, reviewVars>>
    \/ DoRefreshSave /\ UNCHANGED <<logins, guardVars, tokenVars, reviewVars>>
    \/ DoRefreshSaveFail /\ UNCHANGED <<logins, guardVars, tokenVars, reviewVars>>
    \/ DoRefreshIssue /\ UNCHANGED <<logins, guardVars, tokenVars, reviewVars>>

SpecRace == Init /\ [][NextRace]_vars

\* the guards, applied to the requests of every signed token
DoAuthenticate == \E p \in SignedPayloads, s \in Strategies : Authenticate(p, s)
DoCheckRoles ==
    \/ CheckRoles(FALSE, {})
    \/ \E roles \in RoleSets : CheckRoles(TRUE, roles)
DoCheckDepartment ==
    \E scoped \in BOOLEAN, params \in Depts \cup {NoDept}, query \in Depts \cup {NoDept},
       body \in Depts \cup {NoDept} : CheckDepartment(scoped, params, query, body)
DoCheckOwnership == \E id \in UserIds : CheckOwnership(id)

NextAuthz ==
    /\ \/ DoAuthenticate
       \/ DoCheckRoles
       \/ DoCheckDepartment
       \/ DoCheckOwnership
    /\ UNCHANGED <<authVars, raceVars, tokenVars, reviewVars>>

SpecAuthz == Init /\ [][NextAuthz]_vars

\* access tokens from issue to verification, while an admin edits the account;
\* a token is presented within its fifteen minutes
TokenRoles == {PREPARATEUR, IPDF}
TokenLogin ==
    /\ Login("u1", "pw1", NoCode)
    /\ issued' = IssuedBy(last', users)
TokenRefresh ==
    /\ \E t \in TokenIds : RefreshToken(t)
    /\ issued' = IssuedBy(last', users)
TokenUpdateUser ==
    /\ \E role \in TokenRoles, d \in Depts, a \in BOOLEAN, isAdmin \in BOOLEAN :
          UpdateUser("u1", role, d, a, isAdmin, ~isAdmin)
    /\ UNCHANGED issued
TokenVerify ==
    /\ issued # NoIssue
    /\ \E s \in Strategies : Authenticate(issued.token, s)
    /\ UNCHANGED <<authVars, issued>>

NextToken ==
    \/ TokenLogin /\ UNCHANGED <<raceVars, guardVars, reviewVars>>
    \/ TokenRefresh /\ UNCHANGED <<raceVars, guardVars, reviewVars>>
    \/ TokenUpdateUser /\ UNCHANGED <<raceVars, guardVars, reviewVars>>
    \/ TokenVerify /\ UNCHANGED <<raceVars, reviewVars>>

SpecToken == Init /\ [][NextToken]_vars

\* two-factor setup and activation, and the logins around them
TwoFactorCodes == [sec : Secrets \cup FreshSecrets, drift : EnableDrifts]
DoSetup2FA ==
    \E id \in UserIds, secret \in FreshSecrets :
        secret # users[id].twoFactorSecret /\ Setup2FA(id, secret)
DoEnable2FA == \E id \in UserIds, token \in TwoFactorCodes : Enable2FA(id, token)
DoDisable2FA == \E id \in UserIds, token \in TwoFactorCodes : Disable2FA(id, token)
TwoFactorLogin ==
    \E id \in UserIds, c \in {NoCode} \cup TwoFactorCodes : Login(id, "pw1", c)

NextTwoFactor ==
    /\ \/ DoSetup2FA
       \/ DoEnable2FA
       \/ DoDisable2FA
       \/ TwoFactorLogin
    /\ UNCHANGED <<raceVars, guardVars, tokenVars, reviewVars>>

SpecTwoFactor == Init /\ [][NextTwoFactor]_vars

\* verify2FAToken on its own: every stored value of twoFactorSecret, and the
\* codes of every secret generated up to MaxDrift steps before or after the
\* current one; the call is recorded with the secret argument in tok
VerifyCodes == [sec : Secrets \cup FreshSecrets, drift : (0 - MaxDrift)..MaxDrift]
Verify2FA(secret, token) ==
    /\ last' = Result("verify2FAToken", "", "", token, secret,
                      IF verify2FAToken(secret, token) THEN "true" ELSE "false",
                      NoPayload, NoToken)
    /\ UNCHANGED <<users, refreshTokens, now, streak>>
DoVerify2FA ==
    \E secret \in {NoSecret} \cup Secrets \cup FreshSecrets, token \in VerifyCodes :
        Verify2FA(secret, token)

NextTotp ==
    /\ DoVerify2FA
    /\ UNCHANGED <<raceVars, guardVars, tokenVars, reviewVars>>

SpecTotp == Init /\ [][NextTotp]_vars

\* logins on an account that an admin deactivates and reactivates
RefusalLogin ==
    /\ \E p \in Passwords : Login("u1", p, NoCode)
    /\ Len(refreshTokens') <= MaxLoginSessions
RefusalUpdateUser ==
    \E a \in BOOLEAN :
        UpdateUser("u1", users["u1"].role, users["u1"].departmentId, a, TRUE, FALSE)

NextRefusal ==
    /\ \/ RefusalLogin
       \/ RefusalUpdateUser
       \/ DoTick
    /\ UNCHANGED <<raceVars, guardVars, tokenVars, reviewVars>>

SpecRefusal == Init /\ [][NextRefusal]_vars

\* failed logins running side by side
DoValidateFind ==
    \E c \in 1..MaxCalls, id \in UserIds, p \in Passwords : ValidateFind(c, id, p)
DoValidateInc == \E c \in 1..MaxCalls : ValidateInc(c)

NextLockRace ==
    /\ \/ DoValidateFind
       \/ DoValidateInc
    /\ UNCHANGED <<calls, guardVars, tokenVars, reviewVars>>

SpecLockRace == Init /\ [][NextLockRace]_vars

\* the validation endpoints, called with the claims of every signed token
DoReviewSheet == \E s \in Sheets, a \in ReviewAction : ReviewSheet(s, a)
DoCreateValidation == \E s \in Sheets, st \in ValidationStage : CreateValidation(s, st)
DoUpdateValidation ==
    \E s \in Sheets, st \in ValidationStage, status \in ValidationStatus :
        UpdateValidation(s, st, status)

NextReview ==
    \/ DoAuthenticate /\ UNCHANGED <<authVars, raceVars, tokenVars, reviewVars>>
    \/ DoReviewSheet /\ UNCHANGED <<authVars, raceVars, tokenVars>>
    \/ DoCreateValidation /\ UNCHANGED <<authVars, raceVars, tokenVars>>
    \/ DoUpdateValidation /\ UNCHANGED <<authVars, raceVars, tokenVars>>

SpecReview == Init /\ [][NextReview]_vars

\* finalization over two sheets: an admin creates the workflows and sets the
\* status of the IPDF stage; finalize is called through its route with the
\* claims of an IQP or admin token, and as a service method with a role string
FinalizeSheets == {"s1", "s2"}
FinalizeRoles == {"IQP", "IPDF", IQP, ADMIN}
InitFinalize ==
    /\ InitAuth
    /\ calls = [c \in 1..MaxCalls |-> IdleCall]
    /\ logins = [c \in 1..MaxCalls |-> IdleLogin]
    /\ reqUser = NoUser
    /\ verdict = NoVerdict
    /\ issued = NoIssue
    /\ workflows = [s \in FinalizeSheets |-> [st \in ValidationStage |-> NoWorkflow]]
    /\ reviewed = NoReview

FinalizeAuthenticate ==
    \E r \in {IQP, ADMIN} :
        Authenticate([sub |-> "u2", email |-> "u2", role |-> r, departmentId |-> "D2"],
                     "shared-jwt.strategy")
FinalizeCreate ==
    \E s \in FinalizeSheets, st \in ValidationStage : CreateValidation(s, st)
FinalizeUpdate ==
    \E s \in FinalizeSheets, status \in ValidationStatus :
        UpdateValidation(s, "IPDF", status)
DoFinalizeSheet == \E s \in FinalizeSheets, a \in ReviewAction : FinalizeSheet(s, a)
DoFinalize ==
    \E s \in FinalizeSheets, a \in ReviewAction, r \in FinalizeRoles : Finalize(s, a, r)

NextFinalize ==
    \/ FinalizeAuthenticate /\ UNCHANGED <<authVars, raceVars, tokenVars, reviewVars>>
    \/ FinalizeCreate /\ UNCHANGED <<authVars, raceVars, tokenVars>>
    \/ FinalizeUpdate /\ UNCHANGED <<authVars, raceVars, tokenVars>>
    \/ DoFinalizeSheet /\ UNCHANGED <<authVars, raceVars, tokenVars>>
    \/ DoFinalize /\ UNCHANGED <<authVars, raceVars, tokenVars>>

SpecFinalize == InitFinalize /\ [][NextFinalize]_vars

\* ------------------------------------------------------------------ claims
Successors(t) == {i \in 1..Len(refreshTokens) : refreshTokens[i].pred = t}
SuccessorsAfter(t) == {i \in 1..Len(refreshTokens') : refreshTokens'[i].pred = t}

\* C1: counted from loginAttempts = 0 and no lock, the fifth consecutive
\* wrong-password login on an active account sets lockedUntil two hours ahead,
\* and the sixth attempt, made while now < lockedUntil, is refused with
\* AccountLocked whatever its password, with no access token and no session.
C1_SixthAttemptLocked ==
    [][\A e \in UserIds :
         /\ (streak[e] = 4 /\ streak'[e] = 5 /\ users[e].isActive)
                => users'[e].lockedUntil = now + LockDuration
         /\ (streak[e] = 5 /\ streak'[e] = 0 /\ now < users[e].lockedUntil)
                => /\ last'.op = "login" /\ last'.who = e
                   /\ last'.result = "AccountLocked"
                   /\ last'.access = NoPayload /\ last'.refresh = NoToken
                   /\ refreshTokens' = refreshTokens]_vars

\* the sixth attempt carried the correct password and was refused
C1_Witness ==
    /\ last.op = "login" /\ last.who \in UserIds
    /\ last.result = "AccountLocked"
    /\ bcryptCompare(last.password, users[last.who].passwordHash)
    /\ streak[last.who] = 0
    /\ users[last.who].loginAttempts = MaxLoginAttempts
    /\ now < users[last.who].lockedUntil

\* C2: run one at a time, a refresh that succeeds on t leaves t revoked, and
\* no token is accepted twice: t never has two successors, and a refresh of a
\* token that already has its successor returns InvalidRefreshToken.
C2_RefreshOnce ==
    /\ \A t \in 1..Len(refreshTokens) :
          /\ Successors(t) # {} => refreshTokens[t].isRevoked
          /\ Cardinality(Successors(t)) <= 1
    /\ (/\ last.op = "refresh"
        /\ last.tok \in 1..Len(refreshTokens)
        /\ Successors(last.tok) \ {last.refresh} # {})
          => last.result = "InvalidRefreshToken"

\* t1 was refreshed, and the same value was presented again and refused
C2_Witness ==
    /\ last.op = "refresh" /\ last.result = "InvalidRefreshToken"
    /\ last.tok \in 1..Len(refreshTokens)
    /\ Successors(last.tok) # {}
    /\ now < refreshTokens[last.tok].expiresAt

\* C4: over login, refresh, logout, logout-all and change-password, a revoked
\* session stays revoked and refresh never accepts it (it gains no successor).
C4_RevokedForGood ==
    [][\A t \in 1..Len(refreshTokens) :
         refreshTokens[t].isRevoked
            => /\ refreshTokens'[t].isRevoked
               /\ SuccessorsAfter(t) = Successors(t)
               /\ (CallStep /\ last'.op = "refresh" /\ last'.tok = t)
                     => last'.result = "InvalidRefreshToken"]_vars

\* a session revoked by logout was offered to refresh, which refused it
C4_Witness ==
    /\ last.op = "refresh" /\ last.result = "InvalidRefreshToken"
    /\ last.tok \in 1..Len(refreshTokens)
    /\ refreshTokens[last.tok].isRevoked
    /\ Successors(last.tok) = {}
    /\ now < refreshTokens[last.tok].expiresAt

\* C5: right after logoutFromAllDevices(id) no session of id is unrevoked.
C5_LogoutAllRevokesAll ==
    last.op = "logoutAll"
        => \A t \in 1..Len(refreshTokens) :
              refreshTokens[t].userId = last.who => refreshTokens[t].isRevoked

\* logout-all ran on an account that held several sessions
C5_Witness ==
    /\ last.op = "logoutAll"
    /\ Cardinality({t \in 1..Len(refreshTokens) : refreshTokens[t].userId = last.who}) >= 2

C7_AsStated ==
    [][(CallStep /\ last'.op = "login")
         => /\ last'.who \notin UserIds => last'.result = "InvalidCredentials"
            /\ (/\ last'.who \in UserIds
                /\ ~bcryptCompare(last'.password, users[last'.who].passwordHash))
                  => last'.result = "InvalidCredentials"]_vars

\* C7, amended: an unregistered email and a wrong password on a registered
\* account that is active and not locked both return InvalidCredentials.
C7_GenericWhileUnlocked ==
    [][(CallStep /\ last'.op = "login")
         => /\ last'.who \notin UserIds => last'.result = "InvalidCredentials"
            /\ (/\ last'.who \in UserIds
                /\ users[last'.who].isActive
                /\ ~(users[last'.who].lockedUntil # NoDate
                        /\ users[last'.who].lockedUntil > now)
                /\ ~bcryptCompare(last'.password, users[last'.who].passwordHash))
                  => last'.result = "InvalidCredentials"]_vars

\* an unregistered email was tried after wrong passwords on a registered one
C7_Witness ==
    /\ last.op = "login" /\ last.who \notin UserIds
    /\ last.result = "InvalidCredentials"
    /\ \E e \in UserIds : users[e].loginAttempts > 0

\* C3: two refresh calls racing on one unrevoked, unexpired token never both
\* succeed: no token has two successor sessions.
C3_OneSuccessor ==
    \A t \in 1..Len(refreshTokens) : Cardinality(Successors(t)) <= 1

\* C8: with a non-empty allowedRoles and an authenticated caller, the role
\* check allows exactly when the caller's role is in allowedRoles and is
\* Forbidden otherwise (a preparateur on an admin endpoint is Forbidden).
C8_RoleCheck ==
    (/\ verdict.guard = "roles" /\ reqUser.present
     /\ verdict.defined /\ verdict.roles # {})
        => /\ verdict.result = "allow" <=> reqUser.role \in verdict.roles
           /\ verdict.result # "allow" => verdict.result = "Forbidden"

\* a preparateur was refused on an endpoint for admin and one more role
C8_Witness ==
    /\ verdict.guard = "roles" /\ reqUser.present
    /\ reqUser.role = PREPARATEUR
    /\ ADMIN \in verdict.roles /\ Cardinality(verdict.roles) = 2
    /\ verdict.result = "Forbidden"

\* C9: on a department-scoped endpoint an admin is allowed; anyone else is
\* allowed when the request names no department or names the caller's own, and
\* Forbidden when the department named (path, then query, then body) is another.
C9_DepartmentScope ==
    (verdict.guard = "department" /\ verdict.scoped /\ reqUser.present)
        => LET target == IF verdict.params # NoDept THEN verdict.params
                         ELSE IF verdict.query # NoDept THEN verdict.query
                         ELSE verdict.body
           IN  /\ reqUser.role = ADMIN => verdict.result = "allow"
               /\ (reqUser.role # ADMIN /\ target \in {NoDept, reqUser.departmentId})
                     => verdict.result = "allow"
               /\ (reqUser.role # ADMIN /\ target \notin {NoDept, reqUser.departmentId})
                     => verdict.result = "Forbidden"

\* a non-admin's own department in the path outweighed another one in the body
C9_Witness ==
    /\ verdict.guard = "department" /\ verdict.scoped /\ reqUser.present
    /\ reqUser.role # ADMIN
    /\ verdict.params = reqUser.departmentId
    /\ verdict.body \notin {NoDept, reqUser.departmentId}
    /\ verdict.result = "allow"

\* C10: on a self-or-admin endpoint a caller with verified claims is allowed
\* exactly when the subject of the claims is the target owner or the role is
\* admin, and is Forbidden otherwise.
C10_SelfOrAdmin ==
    (verdict.guard = "ownership" /\ reqUser.present)
        => LET subject == IF reqUser.sub # Undefined THEN reqUser.sub ELSE reqUser.userId
           IN  /\ verdict.result = "allow"
                     <=> (subject = verdict.target \/ reqUser.role = ADMIN)
               /\ verdict.result # "allow" => verdict.result = "Forbidden"

\* C11: a changePassword that reports success leaves every session of the
\* account revoked; one that fails (wrong current password, or new password
\* equal to the current one) changes neither the password hash nor any session.
C11_ChangePasswordRevokes ==
    [][(last'.op = "changePassword")
         => /\ last'.result = "ok"
                  => \A t \in 1..Len(refreshTokens') :
                        refreshTokens'[t].userId = last'.who => refreshTokens'[t].isRevoked
            /\ last'.result # "ok"
                  => /\ users' = users
                     /\ refreshTokens' = refreshTokens]_vars

\* the password was changed on an account that held several sessions
C11_Witness ==
    /\ last.op = "changePassword" /\ last.result = "ok"
    /\ ~bcryptCompare(last.password, users[last.who].passwordHash)
    /\ Cardinality({t \in 1..Len(refreshTokens) : refreshTokens[t].userId = last.who}) >= 2

\* C12: verifying the access token that login or refresh issued yields claims
\* whose subject id, role and departmentId are those the account had when the
\* token was issued, under either strategy and whatever happened to the
\* account since.
C12_TokenRoundTrip ==
    [][(reqUser' # reqUser)
         => /\ reqUser'.present
            /\ SubjectOf(reqUser') = issued.id
            /\ reqUser'.role = issued.role
            /\ reqUser'.departmentId = issued.departmentId]_vars

\* a token was verified after the account's role and department had changed
C12_Witness ==
    /\ issued # NoIssue /\ reqUser.present
    /\ SubjectOf(reqUser) = issued.id
    /\ reqUser.role = issued.role /\ reqUser.departmentId = issued.departmentId
    /\ users[issued.id].role # issued.role
    /\ users[issued.id].departmentId # issued.departmentId

\* C24: the access token that a successful refresh returns carries the role
\* and departmentId the owning account has when refresh is called, also when
\* they were changed after the session was opened.
C24_RefreshCurrentClaims ==
    [][(/\ last'.op = "refresh" /\ last'.result = "ok"
        /\ Len(refreshTokens') = Len(refreshTokens) + 1)
         => /\ last'.access.sub = refreshTokens[last'.tok].userId
            /\ last'.access.role = users[last'.access.sub].role
            /\ last'.access.departmentId = users[last'.access.sub].departmentId]_vars

\* one login, then a change of role and department, then the refresh of that
\* session: the refreshed token carries the new values
C24_Witness ==
    /\ last.op = "refresh" /\ last.result = "ok" /\ last.tok = 1
    /\ Len(refreshTokens) = 2 /\ refreshTokens[2].pred = 1
    /\ issued.token = last.access
    /\ issued.prevRole # "" /\ issued.prevRole # last.access.role
    /\ issued.prevDepartmentId # last.access.departmentId
    /\ last.access.role = users[last.who].role
    /\ last.access.departmentId = users[last.who].departmentId

\* C25: a refresh call appends its successor session and returns tokens only
\* when the old session is already stored as revoked; a call whose revoking
\* save fails ends with a failure, returns no token and leaves the sessions
\* as they were.
C25_RevokeBeforeSuccessor ==
    [][\A c \in 1..MaxCalls :
         /\ (calls[c].pc = "issue" /\ calls'[c].pc = "idle")
               => /\ refreshTokens[calls[c].tok].isRevoked
                  /\ last'.result = "ok" /\ last'.tok = calls[c].tok
                  /\ refreshTokens'[last'.refresh].pred = calls[c].tok
         /\ (last'.op = "refresh" /\ Len(refreshTokens') > Len(refreshTokens))
               => refreshTokens[last'.tok].isRevoked
         /\ (calls[c].pc = "save" /\ calls'[c].pc = "idle")
               => /\ last'.op = "refresh" /\ last'.result # "ok"
                  /\ last'.access = NoPayload /\ last'.refresh = NoToken
                  /\ refreshTokens' = refreshTokens]_vars

\* a session was rotated, and the refresh of its successor failed at the
\* revoking save: the successor is still valid and has no successor
C25_Witness ==
    /\ last.op = "refresh" /\ last.result = "WriteFailed"
    /\ last.tok \in 1..Len(refreshTokens)
    /\ ~refreshTokens[last.tok].isRevoked
    /\ Successors(last.tok) = {}
    /\ refreshTokens[last.tok].pred # NoToken
    /\ refreshTokens[refreshTokens[last.tok].pred].isRevoked

\* C29: after logout or logoutFromAllDevices has revoked a session, no
\* refresh call on that session that completes afterwards appends a successor
\* or returns tokens, even one that had read the session before it was revoked.
C29_NoRefreshAfterLogout ==
    [][\A c \in 1..MaxCalls :
         (/\ last.op \in {"logout", "logoutAll"}
          /\ \/ last.op = "logout" /\ last.tok = calls[c].tok
             \/ last.op = "logoutAll" /\ last.who = calls[c].payload.sub
          /\ calls[c].pc # "idle" /\ calls'[c].pc = "idle")
            => /\ Len(refreshTokens') = Len(refreshTokens)
               /\ last'.result # "ok" /\ last'.refresh = NoToken]_vars

\* C27: refresh of a session that is stored, unrevoked and unexpired and
\* whose owning account is inactive fails with AccountInactive, returns no
\* access token and no refresh token, and leaves every session, that one
\* included, as it was.
C27_InactiveRefresh ==
    [][\A t \in TokenIds :
         (/\ t \in 1..Len(refreshTokens)
          /\ ~refreshTokens[t].isRevoked /\ ~isExpired(refreshTokens[t], now)
          /\ ~users[refreshTokens[t].userId].isActive
          /\ last'.op = "refresh" /\ last'.tok = t)
            => /\ last'.result = "AccountInactive"
               /\ last'.access = NoPayload /\ last'.refresh = NoToken
               /\ refreshTokens' = refreshTokens
               /\ users' = users]_vars

\* the refresh of a live session of a deactivated account was refused
C27_Witness ==
    /\ last.op = "refresh" /\ last.result = "AccountInactive"
    /\ last.tok \in 1..Len(refreshTokens)
    /\ ~refreshTokens[last.tok].isRevoked /\ ~isExpired(refreshTokens[last.tok], now)
    /\ ~users[refreshTokens[last.tok].userId].isActive
    /\ Successors(last.tok) = {}

\* C30: a login on an account that is locked (now < lockedUntil) or inactive
\* is refused and leaves the accounts and the sessions as they were, whether
\* the password is right or wrong; the answer is AccountLocked when the
\* account is locked, also when it is inactive as well, and AccountInactive
\* otherwise.
C30_RefusedLoginNoWrite ==
    [][\A e \in UserIds :
         (/\ CallStep /\ last'.op = "login" /\ last'.who = e
          /\ isLocked(users[e], now) \/ ~users[e].isActive)
            => /\ last'.result = IF isLocked(users[e], now) THEN "AccountLocked"
                                 ELSE "AccountInactive"
               /\ users' = users
               /\ refreshTokens' = refreshTokens
               /\ last'.access = NoPayload /\ last'.refresh = NoToken]_vars

\* a login with the right password on an account that is locked and inactive
\* was answered AccountLocked, and the counter stands where the lock left it
C30_Witness ==
    /\ last.op = "login" /\ last.result = "AccountLocked"
    /\ last.who \in UserIds
    /\ isLocked(users[last.who], now) /\ ~users[last.who].isActive
    /\ bcryptCompare(last.password, users[last.who].passwordHash)
    /\ users[last.who].loginAttempts = MaxLoginAttempts
    /\ users[last.who].lockedUntil = now + LockDuration - 1
    /\ users[last.who].lastLoginAt = NoDate

\* C28: a finalize call changes a workflow only when the sheet it names has
\* an active IPDF workflow with status VALIDATED at the call, and then only
\* the status of that sheet's IQP workflow; without one the call fails and
\* every workflow stays as it was.
C28_FinalizeAfterIpdf ==
    [][\A s \in FinalizeSheets :
         (reviewed'.op = "finalize" /\ reviewed'.sheet = s)
            => LET ipdfValidated == /\ workflows[s]["IPDF"].status = "VALIDATED"
                                    /\ workflows[s]["IPDF"].isActive
               IN  /\ workflows' # workflows
                         => /\ ipdfValidated
                            /\ reviewed'.result = "ok"
                            /\ \A t \in FinalizeSheets, st \in ValidationStage :
                                  (t # s \/ st # "IQP")
                                     => workflows'[t][st] = workflows[t][st]
                            /\ workflows'[s]["IQP"].isActive = workflows[s]["IQP"].isActive
                   /\ ~ipdfValidated
                         => reviewed'.result # "ok" /\ workflows' = workflows]_vars

\* a finalize on s1 was approved while the other sheet's IPDF stage is not
\* validated
C28_Witness ==
    /\ reviewed.op = "finalize" /\ reviewed.result = "ok" /\ reviewed.sheet = "s1"
    /\ reviewed.action = "approve"
    /\ workflows["s1"]["IPDF"].status = "VALIDATED"
    /\ workflows["s1"]["IQP"].status = "VALIDATED"
    /\ workflows["s2"]["IPDF"].status = "PENDING"
    /\ workflows["s2"]["IQP"].status = "PENDING"

\* C26: whatever the role, department or ownership requirement of the
\* endpoint, a request that carries no claims is answered Unauthenticated,
\* never Forbidden and never allowed.
C26_AbsentClaimsUnauthenticated ==
    (/\ ~reqUser.present
     /\ \/ verdict.guard = "roles" /\ verdict.defined
        \/ verdict.guard = "department" /\ verdict.scoped
        \/ verdict.guard = "ownership")
        => verdict.result = "Unauthenticated"

\* C13: on an account with a pending secret, enable2FA succeeds for a code of
\* that secret generated at the current step or one step before or after it,
\* and fails for a code generated three steps away.
C13_EnableWithinOneStep ==
    [][\A id \in UserIds :
         (/\ last'.op = "enable2FA" /\ last'.who = id
          /\ users[id].twoFactorSecret # NoSecret
          /\ ~users[id].isTwoFactorEnabled
          /\ last'.code.sec = users[id].twoFactorSecret)
            => /\ last'.code.drift \in {0 - 1, 0, 1}
                     => last'.result = "ok" /\ users'[id].isTwoFactorEnabled
               /\ last'.code.drift = 3 => last'.result # "ok"]_vars

\* C21: on an account whose 2FA is not yet enabled, enable2FA with a code of
\* the stored secret for the current step succeeds and sets isTwoFactorEnabled;
\* with a code of another secret it fails with "invalid code", and with no
\* stored secret it fails with "setup not initiated"; a failed call leaves
\* the accounts as they were.
C21_EnableOutcomes ==
    [][\A id \in UserIds :
         (last'.op = "enable2FA" /\ last'.who = id /\ ~users[id].isTwoFactorEnabled)
            => /\ (/\ users[id].twoFactorSecret # NoSecret
                   /\ last'.code.sec = users[id].twoFactorSecret
                   /\ last'.code.drift = 0)
                     => /\ last'.result = "ok"
                        /\ users'[id].isTwoFactorEnabled
               /\ (/\ users[id].twoFactorSecret # NoSecret
                   /\ last'.code.sec # users[id].twoFactorSecret)
                     => last'.result = "BadRequest: invalid code"
               /\ users[id].twoFactorSecret = NoSecret
                     => last'.result = "BadRequest: setup not initiated"
               /\ last'.result # "ok" => users' = users]_vars

\* C22: verify2FAToken accepts a code exactly when it is a code of the given
\* secret generated at the current step or one step before or after it; a
\* code generated two or more steps away is rejected.
C22_DriftOneStep ==
    [][last'.op = "verify2FAToken"
         => (last'.result = "true"
               <=> /\ last'.code.sec = last'.tok
                   /\ last'.code.drift \in {0 - 1, 0, 1})]_vars

\* C23: disable2FA with a code of the stored secret for the current step
\* clears twoFactorSecret and isTwoFactorEnabled, whether the secret is pending
\* or enabled.
C23_DisableClears ==
    [][\A id \in UserIds :
         (/\ last'.op = "disable2FA" /\ last'.who = id
          /\ users[id].twoFactorSecret # NoSecret
          /\ last'.code.sec = users[id].twoFactorSecret
          /\ last'.code.drift = 0)
            => /\ last'.result = "ok"
               /\ users'[id].twoFactorSecret = NoSecret
               /\ ~users'[id].isTwoFactorEnabled]_vars

C14_LogoutIdempotent ==
    [][(CallStep /\ last'.op = "logout")
         => /\ last'.result = "ok"
            /\ Len(refreshTokens') = Len(refreshTokens)
            /\ \A t \in 1..Len(refreshTokens) :
                  IF t = last'.tok
                  THEN refreshTokens'[t] = [refreshTokens[t] EXCEPT !.isRevoked = TRUE]
                  ELSE refreshTokens'[t] = refreshTokens[t]
            /\ users' = users
            /\ (last.op = "logout" /\ last.tok = last'.tok)
                  => refreshTokens' = refreshTokens]_vars

\* a session was logged out and its owner's other session stayed unrevoked
C14_Witness ==
    /\ last.op = "logout" /\ last.result = "ok"
    /\ last.tok \in 1..Len(refreshTokens)
    /\ refreshTokens[last.tok].isRevoked
    /\ \E t \in 1..Len(refreshTokens) :
          /\ t # last.tok
          /\ refreshTokens[t].userId = refreshTokens[last.tok].userId
          /\ ~refreshTokens[t].isRevoked

C19_RestartAfterExpiredLock ==
    [][\A e \in UserIds :
         (/\ CallStep /\ last'.op = "login" /\ last'.who = e
          /\ users[e].isActive
          /\ ~bcryptCompare(last'.password, users[e].passwordHash))
            => /\ (users[e].lockedUntil # NoDate /\ users[e].lockedUntil < now)
                     => /\ users'[e].loginAttempts = 1
                        /\ users'[e].lockedUntil = NoDate
               /\ (users[e].lockedUntil = NoDate /\ users[e].loginAttempts < 4)
                     => /\ users'[e].loginAttempts = users[e].loginAttempts + 1
                        /\ users'[e].lockedUntil = NoDate
               /\ (users[e].lockedUntil = NoDate /\ users[e].loginAttempts = 4)
                     => /\ users'[e].loginAttempts = MaxLoginAttempts
                        /\ users'[e].lockedUntil = now + LockDuration]_vars

\* the lock ran out, a wrong password restarted the count at 1, and four more
\* failures locked the account again
C19_Witness ==
    \E e \in UserIds :
        /\ users[e].loginAttempts = MaxLoginAttempts
        /\ users[e].lockedUntil = now + LockDuration
        /\ now > 1 + LockDuration
        /\ streak[e] = 0
        /\ last.op = "login" /\ last.who = e /\ last.result = "InvalidCredentials"

\* C18: with failed logins on one account running side by side, the counter
\* holds every completed failure, it never passes 5, and no state has it at 5
\* or more with no lock set.
C18_LockAtThreshold ==
    \A id \in UserIds :
        /\ users[id].loginAttempts = streak[id]
        /\ users[id].loginAttempts <= MaxLoginAttempts
        /\ users[id].loginAttempts >= MaxLoginAttempts => users[id].lockedUntil # NoDate

\* C16: a caller whose verified claims carry the role ipdf or admin, reviewing
\* a sheet whose active IPDF-stage workflow is PENDING or IN_REVIEW, is allowed,
\* and the workflow becomes VALIDATED on approve and REJECTED on reject.
C16_IpdfReview ==
    [][\A s \in Sheets :
         (/\ reviewed'.op = "review" /\ reviewed'.sheet = s
          /\ reqUser.present /\ reqUser.role \in {IPDF, ADMIN}
          /\ workflows[s]["IPDF"].isActive
          /\ workflows[s]["IPDF"].status \in {"PENDING", "IN_REVIEW"})
            => /\ reviewed'.result = "ok"
               /\ workflows'[s]["IPDF"].status =
                     IF reviewed'.action = "approve" THEN "VALIDATED" ELSE "REJECTED"]_vars

====
